---- MODULE Spec2Model ----
(***************************************************************************)
(* Model of examples/loader.rs: the Vulkan / Instance / Device wrappers,   *)
(* their construction and release, and the two-call enumerations.          *)
(*                                                                         *)
(* The native driver is the environment: every status, count and buffer    *)
(* content it reports is chosen with \E inside the action of the operation *)
(* that makes the native call.                                             *)
(***************************************************************************)
EXTENDS Integers, Sequences, FiniteSets, TLC

\* ---------------------------------------------------------------- bounds
MaxCalls == 3           \* calls of Vulkan::new, Instance::new and Device::new in one run
MaxNames == 1           \* names in a layer / extension list
MaxQueues == 2          \* queue requests given to Device::new
MaxCount == 2           \* entries the driver reports in an enumeration
BufferSize == 3         \* elements of a fixed-size name buffer
MaxBeyond == 1          \* bytes before the first zero byte in the memory after a buffer
MaxDecodes == 2         \* decodings of one buffer in one run

\* ------------------------------------------------------- program constants
NULL_HANDLE == 0        \* vk::NULL_HANDLE
MaxPriority == 1        \* the 1.0 every priority slot is filled with

VARIABLES
    vulkans,      \* Vulkan values: where each is and whether its lib is mapped
    instances,    \* Instance values
    devices,      \* Device values
    log,          \* library loads / unloads, resolver uses and native calls, in order
    lastRes,      \* the operation that ran last and what it returned (or that it panicked)
    panicked,     \* a .unwrap() has panicked: the process is unwinding
    createInfo,   \* what the native CreateDevice call of the last operation received
    lastEnum,     \* the enumeration that ran last: its native calls and its result
    c_chars,      \* a fixed-size name buffer of a capability record
    decoded       \* what the decodings of that buffer made so far returned

vars == <<vulkans, instances, devices, log, lastRes, panicked, createInfo, lastEnum,
          c_chars, decoded>>

VulkanIds == 1..MaxCalls
InstanceIds == 1..MaxCalls
DeviceIds == 1..MaxCalls

\* Statuses a native create call may report (vk::Result).
CreateStatus == {"SUCCESS", "ERROR_EXTENSION_NOT_PRESENT", "ERROR_INITIALIZATION_FAILED"}

\* Byte strings (&str arguments): one without and one with an embedded zero byte.
Names == {<<65>>, <<65, 0, 66>>}
NameLists == UNION {[1..n -> Names] : n \in 0..MaxNames}

\* CString::new(s): fails on an embedded zero byte, else appends the terminator.
CString_new(s) ==
    IF \E k \in 1..Len(s) : s[k] = 0
    THEN [ok |-> FALSE, bytes |-> <<>>]
    ELSE [ok |-> TRUE, bytes |-> Append(s, 0)]

\* .unwrap() on every CString::new of a list: TRUE when one of them panics.
UnwrapPanics(names) == \E k \in 1..Len(names) : ~CString_new(names[k]).ok

\* ---------------------------------------------------------------- the log
\* One entry per library load/unload, resolver use or native call.
\*   fn     the operation
\*   obj    the Vulkan / Instance / Device value it is made for
\*   via    the resolver or function table the entry point comes from
\*   scope  the handle given to a resolver
\*   status what it returned
\*   mapped whether the library the entry point lives in was mapped at the call
Event(fn, obj, via, scope, status, mapped) ==
    [fn |-> fn, obj |-> obj, via |-> via, scope |-> scope,
     status |-> status, mapped |-> mapped]

NoVia == <<"none", 0>>

\* The library of a Vulkan value is mapped from Library::new to the drop of lib.
LibMapped(v) == vulkans[v].state \in {"caller", "moved"}

\* The Vulkan value an Instance was built from and owns.
VulkanOf(i) == instances[i].vk

\* The Instance a Device was created from (the Device keeps no reference to it).
InstanceOf(d) == devices[d].instance


\* Constructor calls made so far: each takes the next free slot of its kind.
CallsMade ==
    Cardinality({v \in VulkanIds : vulkans[v].state # "none"})
    + Cardinality({i \in InstanceIds : instances[i].state # "none"})
    + Cardinality({d \in DeviceIds : devices[d].state # "none"})

\* A constructor can run: the process has not panicked, and the run is not over.
CanCall == ~panicked /\ CallsMade < MaxCalls

Result(op, outcome, status, obj, input) ==
    [op |-> op, outcome |-> outcome, status |-> status, obj |-> obj, input |-> input]

\* No native CreateDevice call / no enumeration in the operation that ran last.
NoCreateInfo ==
    [called |-> FALSE, queues |-> <<>>, queueCreateInfoCount |-> 0,
     pQueueCreateInfos |-> <<>>, priorities |-> <<>>, enabledExtensionCount |-> 0,
     features |-> "None", pEnabledFeatures |-> "null", featuresRead |-> "None"]

NoEnum == [op |-> "none", calls |-> <<>>, outcome |-> "none", status |-> "none", value |-> <<>>]

\* ------------------------------------------------------------ Vulkan::new
\* The bootstrap resolver of a Vulkan value: lib.get("vkGetInstanceProcAddr").
BootstrapResolver(v) == <<"GetInstanceProcAddr", v>>

\* vk::LibraryCommands::new(GetInstanceProcAddr, vk::NULL_HANDLE)
LibraryCommands_new(v) ==
    Event("LibraryCommands::new", v, BootstrapResolver(v), NULL_HANDLE, "SUCCESS", TRUE)

\* Drop of a Vulkan value: its lib field is dropped, which unloads the library.
LibraryDrop(v) == Event("Library::drop", v, NoVia, NULL_HANDLE, "SUCCESS", TRUE)

FreeVulkan(v) ==
    /\ vulkans[v].state = "none"
    /\ \A w \in VulkanIds : w < v => vulkans[w].state # "none"

VulkanNew ==
    /\ CanCall
    /\ \E v \in VulkanIds, opens \in BOOLEAN, hasSymbol \in BOOLEAN :
         /\ FreeVulkan(v)
         /\ IF ~opens
            THEN \* Library::new failed: maybe_lib.map passes the Err through
                 /\ vulkans' = [vulkans EXCEPT ![v].state = "failed"]
                 /\ log' = Append(log, Event("Library::new", v, NoVia, NULL_HANDLE, "ERROR", FALSE))
                 /\ lastRes' = Result("Vulkan::new", "err", "libloading::Error", v, "no_library")
                 /\ panicked' = FALSE
            ELSE IF ~hasSymbol
            THEN \* lib.get(..).unwrap() panics; lib is dropped while unwinding
                 /\ vulkans' = [vulkans EXCEPT ![v].state = "failed"]
                 /\ log' = log \o <<Event("Library::new", v, NoVia, NULL_HANDLE, "SUCCESS", TRUE),
                                    Event("lib.get", v, NoVia, NULL_HANDLE, "ERROR", TRUE),
                                    LibraryDrop(v)>>
                 /\ lastRes' = Result("Vulkan::new", "panic", "libloading::Error", v, "no_symbol")
                 /\ panicked' = TRUE
            ELSE /\ vulkans' = [vulkans EXCEPT ![v].state = "caller"]
                 /\ log' = log \o <<Event("Library::new", v, NoVia, NULL_HANDLE, "SUCCESS", TRUE),
                                    Event("lib.get", v, NoVia, NULL_HANDLE, "SUCCESS", TRUE),
                                    LibraryCommands_new(v)>>
                 /\ lastRes' = Result("Vulkan::new", "ok", "SUCCESS", v, "ok")
                 /\ panicked' = FALSE
    /\ createInfo' = NoCreateInfo
    /\ lastEnum' = NoEnum
    /\ UNCHANGED <<instances, devices>>
    /\ UNCHANGED <<c_chars, decoded>>

\* ---------------------------------------------------------- Instance::new
InstanceArgs ==
    [app_name : Names, engine_name : Names, layers : NameLists, extensions : NameLists]

\* The four .unwrap() calls that precede the native call.
InstanceNewPanics(args) ==
    \/ ~CString_new(args.app_name).ok
    \/ ~CString_new(args.engine_name).ok
    \/ UnwrapPanics(args.layers)
    \/ UnwrapPanics(args.extensions)

\* vk.commands.CreateInstance: an entry of the library-tier table of vk.
CreateInstance(v, i, status) ==
    Event("CreateInstance", i, <<"LibraryCommands", v>>, NULL_HANDLE, status, LibMapped(v))

\* The resolver given to vk::InstanceCommands::new.
InstanceResolver(v) == BootstrapResolver(v)

\* vk::InstanceCommands::new(vk.GetInstanceProcAddr, instance)
InstanceCommands_new(v, i, instance) ==
    Event("InstanceCommands::new", i, InstanceResolver(v), instance, "SUCCESS", LibMapped(v))

\* The handle the driver writes through the out-parameter of a successful create:
\* nonzero, and different for every object.
NewHandle(id) == id

FreeInstance(i) ==
    /\ instances[i].state = "none"
    /\ \A j \in InstanceIds : j < i => instances[j].state # "none"

\* As InstanceNewReturn, but building the Instance before looking at the status,
\* so that the failure path drops an Instance and with it calls DestroyInstance.
InstanceNewReturn_drops(v, i, status) ==
    IF status = "SUCCESS"
    THEN /\ vulkans' = [vulkans EXCEPT ![v].state = "moved"]
         /\ instances' = [instances EXCEPT ![i] =
                              [state |-> "alive", vk |-> v, instance |-> NewHandle(i)]]
         /\ log' = log \o <<CreateInstance(v, i, status),
                            InstanceCommands_new(v, i, NewHandle(i))>>
         /\ lastRes' = Result("Instance::new", "ok", status, i, "ok")
         /\ panicked' = FALSE
    ELSE /\ vulkans' = [vulkans EXCEPT ![v].state = "dropped"]
         /\ instances' = [instances EXCEPT ![i].state = "failed", ![i].vk = v]
         /\ log' = log \o <<CreateInstance(v, i, status),
                            Event("DestroyInstance", i, <<"InstanceCommands", i>>,
                                  NULL_HANDLE, "SUCCESS", LibMapped(v)),
                            LibraryDrop(v)>>
         /\ lastRes' = Result("Instance::new", "err", status, i, "ok")
         /\ panicked' = FALSE

\* What Instance::new does once the native create call has returned `status`.
InstanceNewReturn(v, i, status) ==
    IF status = "SUCCESS"
    THEN \* Ok(Instance { vk, instance, commands }): vk moves into the Instance
         /\ vulkans' = [vulkans EXCEPT ![v].state = "moved"]
         /\ instances' = [instances EXCEPT ![i] =
                              [state |-> "alive", vk |-> v, instance |-> NewHandle(i)]]
         /\ log' = log \o <<CreateInstance(v, i, status),
                            InstanceCommands_new(v, i, NewHandle(i))>>
         /\ lastRes' = Result("Instance::new", "ok", status, i, "ok")
         /\ panicked' = FALSE
    ELSE \* Err(result): the parameter vk goes out of scope here and is dropped
         /\ vulkans' = [vulkans EXCEPT ![v].state = "dropped"]
         /\ instances' = [instances EXCEPT ![i].state = "failed", ![i].vk = v]
         /\ log' = log \o <<CreateInstance(v, i, status), LibraryDrop(v)>>
         /\ lastRes' = Result("Instance::new", "err", status, i, "ok")
         /\ panicked' = FALSE

InstanceNew ==
    /\ CanCall
    /\ \E v \in VulkanIds, i \in InstanceIds :
         /\ vulkans[v].state = "caller"        \* vk: Vulkan, moved in
         /\ FreeInstance(i)
         /\ \E args \in InstanceArgs :
              IF InstanceNewPanics(args)
              THEN \* unwinding drops the parameter vk; no native call was made
                   /\ vulkans' = [vulkans EXCEPT ![v].state = "dropped"]
                   /\ instances' = [instances EXCEPT ![i].state = "failed", ![i].vk = v]
                   /\ log' = Append(log, LibraryDrop(v))
                   /\ lastRes' = Result("Instance::new", "panic", "NulError", i, "nul_byte")
                   /\ panicked' = TRUE
              ELSE \E status \in CreateStatus : InstanceNewReturn(v, i, status)
    /\ createInfo' = NoCreateInfo
    /\ lastEnum' = NoEnum
    /\ UNCHANGED devices
    /\ UNCHANGED <<c_chars, decoded>>

\* ------------------------------------------------------------ Device::new
\* Queue requests (family index, queue count), and &[(u32, u32)].
QueueRequest == {<<0, 1>>, <<1, 2>>, <<1, 0>>}
QueueLists == UNION {[1..n -> QueueRequest] : n \in 0..MaxQueues}

\* Option<vk::PhysicalDeviceFeatures>: None, or Some of a feature record.
FeatureOptions == {"None", "features"}

DeviceArgs == [extensions : NameLists, queues : QueueLists, features : FeatureOptions]

\* What the stack slot of the match arm's binding may hold once the arm has ended.
SlotContents(features) ==
    IF features = "None" THEN {"None"} ELSE {features, "garbage"}

\* u32::max
Max(a, b) == IF a >= b THEN a ELSE b

\* queues.iter().fold(0u32, |max, (_, x)| *x.max(&max))
RECURSIVE FoldMax(_, _)
FoldMax(max, queues) ==
    IF queues = <<>> THEN max
    ELSE FoldMax(Max(Head(queues)[2], max), Tail(queues))

\* As max_queues, but taking the count of the last request for the largest.
max_queues_last(queues) ==
    IF queues = <<>> THEN 0 ELSE queues[Len(queues)][2]

max_queues(queues) == FoldMax(0, queues)

\* vec![1.0; max_queues as usize]
priorities(queues) == [k \in 1..max_queues(queues) |-> MaxPriority]

\* One vk::DeviceQueueCreateInfo per request; pQueuePriorities is priorities.as_ptr().
queue_infos(queues) ==
    [k \in 1..Len(queues) |->
        [queueFamilyIndex |-> queues[k][1],
         queueCount |-> queues[k][2],
         pQueuePriorities |-> "priorities"]]

\* pEnabledFeatures: &f of the match arm's own binding f, or null.
pEnabledFeatures(features) == IF features = "None" THEN "null" ELSE "&f"

\* The arguments of the native CreateDevice call, with the memory they point into.
\* The binding f of the match arm is gone when the call is made: what the driver
\* reads behind "&f" is whatever that stack slot holds by then (`seen`).
DeviceCreateInfo(args, seen) ==
    [called |-> TRUE,
     queues |-> args.queues,
     queueCreateInfoCount |-> Len(queue_infos(args.queues)),
     pQueueCreateInfos |-> queue_infos(args.queues),
     priorities |-> priorities(args.queues),
     enabledExtensionCount |-> Len(args.extensions),
     features |-> args.features,
     pEnabledFeatures |-> pEnabledFeatures(args.features),
     featuresRead |-> seen]

\* instance.commands.CreateDevice: an entry of the connection-tier table.
CreateDevice(i, d, status) ==
    Event("CreateDevice", d, <<"InstanceCommands", i>>, NULL_HANDLE, status,
          LibMapped(VulkanOf(i)))

\* As DeviceResolver, but taking the bootstrap resolver of the Instance's Vulkan.
DeviceResolver_bootstrap(i) == BootstrapResolver(VulkanOf(i))

\* The resolver given to vk::DeviceCommands::new: instance.commands.GetDeviceProcAddr.
DeviceResolver(i) == <<"GetDeviceProcAddr", i>>

\* vk::DeviceCommands::new(instance.commands.GetDeviceProcAddr, device)
DeviceCommands_new(i, d, device) ==
    Event("DeviceCommands::new", d, DeviceResolver(i), device, "SUCCESS",
          LibMapped(VulkanOf(i)))

FreeDevice(d) ==
    /\ devices[d].state = "none"
    /\ \A e \in DeviceIds : e < d => devices[e].state # "none"

\* What Device::new does once the native create call has returned `status`.
DeviceNewReturn(i, d, status) ==
    IF status = "SUCCESS"
    THEN /\ devices' = [devices EXCEPT ![d] =
                          [state |-> "alive", instance |-> i, device |-> NewHandle(d)]]
         /\ log' = log \o <<CreateDevice(i, d, status),
                            DeviceCommands_new(i, d, NewHandle(d))>>
         /\ lastRes' = Result("Device::new", "ok", status, d, "ok")
         /\ panicked' = FALSE
    ELSE /\ devices' = [devices EXCEPT ![d].state = "failed", ![d].instance = i]
         /\ log' = Append(log, CreateDevice(i, d, status))
         /\ lastRes' = Result("Device::new", "err", status, d, "ok")
         /\ panicked' = FALSE

DeviceNew ==
    /\ CanCall
    /\ \E i \in InstanceIds, d \in DeviceIds :
         /\ instances[i].state = "alive"       \* instance: &Instance
         /\ FreeDevice(d)
         /\ \E args \in DeviceArgs :
              IF UnwrapPanics(args.extensions)
              THEN \* the Instance is only borrowed: unwinding releases nothing of it
                   /\ devices' = [devices EXCEPT ![d].state = "failed", ![d].instance = i]
                   /\ lastRes' = Result("Device::new", "panic", "NulError", d, "nul_byte")
                   /\ panicked' = TRUE
                   /\ createInfo' = NoCreateInfo
                   /\ UNCHANGED log
              ELSE \E seen \in SlotContents(args.features), status \in CreateStatus :
                     /\ createInfo' = DeviceCreateInfo(args, seen)
                     /\ DeviceNewReturn(i, d, status)
    /\ lastEnum' = NoEnum
    /\ UNCHANGED <<vulkans, instances>>
    /\ UNCHANGED <<c_chars, decoded>>

\* ------------------------------------------------------------------ drops
\* impl Drop for Device: nothing ties the Device to the Instance it came from,
\* so this can run whatever has become of that Instance.
DestroyDevice(d) ==
    Event("DestroyDevice", d, <<"DeviceCommands", d>>, devices[d].device, "SUCCESS",
          LibMapped(VulkanOf(InstanceOf(d))))

\* As DropDevice, but releasing the Instance the Device came from with it.
DropDevice_cascade ==
    /\ \E d \in DeviceIds :
         /\ devices[d].state = "alive"
         /\ devices' = [devices EXCEPT ![d].state = "dropped"]
         /\ instances' = [instances EXCEPT ![InstanceOf(d)].state = "dropped"]
         /\ log' = Append(log, DestroyDevice(d))
         /\ lastRes' = Result("Device::drop", "ok", "none", d, "none")
    /\ createInfo' = NoCreateInfo
    /\ lastEnum' = NoEnum
    /\ UNCHANGED <<vulkans, panicked>>
    /\ UNCHANGED <<c_chars, decoded>>

DropDevice ==
    /\ \E d \in DeviceIds :
         /\ devices[d].state = "alive"
         /\ devices' = [devices EXCEPT ![d].state = "dropped"]
         /\ log' = Append(log, DestroyDevice(d))
         /\ lastRes' = Result("Device::drop", "ok", "none", d, "none")
    /\ createInfo' = NoCreateInfo
    /\ lastEnum' = NoEnum
    /\ UNCHANGED <<vulkans, instances, panicked>>
    /\ UNCHANGED <<c_chars, decoded>>

\* impl Drop for Instance, then the drop of its fields: vk unloads the library.
DestroyInstance(i) ==
    Event("DestroyInstance", i, <<"InstanceCommands", i>>, instances[i].instance,
          "SUCCESS", LibMapped(VulkanOf(i)))

DropInstance ==
    /\ \E i \in InstanceIds :
         /\ instances[i].state = "alive"
         /\ instances' = [instances EXCEPT ![i].state = "dropped"]
         /\ vulkans' = [vulkans EXCEPT ![VulkanOf(i)].state = "dropped"]
         /\ log' = log \o <<DestroyInstance(i), LibraryDrop(VulkanOf(i))>>
         /\ lastRes' = Result("Instance::drop", "ok", "none", i, "none")
    /\ createInfo' = NoCreateInfo
    /\ lastEnum' = NoEnum
    /\ UNCHANGED <<devices, panicked>>
    /\ UNCHANGED <<c_chars, decoded>>

\* A Vulkan value the caller still holds goes out of scope.
DropVulkan ==
    /\ \E v \in VulkanIds :
         /\ vulkans[v].state = "caller"
         /\ vulkans' = [vulkans EXCEPT ![v].state = "dropped"]
         /\ log' = Append(log, LibraryDrop(v))
         /\ lastRes' = Result("Vulkan::drop", "ok", "none", v, "none")
    /\ createInfo' = NoCreateInfo
    /\ lastEnum' = NoEnum
    /\ UNCHANGED <<instances, devices, panicked>>
    /\ UNCHANGED <<c_chars, decoded>>

\* ----------------------------------------------------------- enumerations
\* Statuses an enumeration call may report (vk::Result).
EnumStatus == {"SUCCESS", "INCOMPLETE", "ERROR_OUT_OF_HOST_MEMORY"}

\* vk::PhysicalDevice handles a caller may pass.
PhysicalDevices == {"gpu0", "gpu1"}

\* Buffer elements: `value` is what the element holds, `writer` who put it there.
DefaultEntry == [value |-> "zero", writer |-> "default"]    \* ::default()
DriverEntry == [value |-> "data", writer |-> "driver"]
\* MaybeUninit::uninit().assume_init(): whatever the memory happens to hold
UninitEntry(held) == [value |-> held, writer |-> "none"]
Indeterminate == {"zero", "garbage"}

\* The driver's side of a fill call: it writes the first n elements of the buffer.
DriverFill(buffer, n) ==
    [k \in 1..Len(buffer) |-> IF k <= n THEN DriverEntry ELSE buffer[k]]

\* One native enumeration call: the output buffer it is given ("null" or the
\* buffer with its length), the count it is given and the count and status the
\* driver reports.
NativeCall(fn, arg, buffer, len, countIn, countOut, status) ==
    [fn |-> fn, arg |-> arg, buffer |-> buffer, len |-> len,
     countIn |-> countIn, countOut |-> countOut, status |-> status]

Ok(op, calls, value) ==
    [op |-> op, calls |-> calls, outcome |-> "ok", status |-> "SUCCESS", value |-> value]

Err(op, calls, result) ==
    [op |-> op, calls |-> calls, outcome |-> "err", status |-> result, value |-> <<>>]

\* Vulkan::enum_extensions; the driver reports (s1, n1) to the count call and
\* (s2, n2) to the fill call.
enum_extensions(s1, n1, s2, n2) ==
    LET fn == "EnumerateInstanceExtensionProperties"
        count == NativeCall(fn, "none", "null", 0, 0, n1, s1)
    IN IF s1 = "SUCCESS"
       THEN LET ext_props == [k \in 1..n1 |-> DefaultEntry]
                fill == NativeCall(fn, "none", "ext_props", Len(ext_props), n1, n2, s2)
            IN IF s2 = "SUCCESS"
               THEN Ok("enum_extensions", <<count, fill>>, DriverFill(ext_props, n2))
               ELSE Err("enum_extensions", <<count, fill>>, s2)
       ELSE Err("enum_extensions", <<count>>, s1)

\* As enum_layers, but returning the buffer whatever the fill call reported.
enum_layers_unchecked(s1, n1, s2, n2) ==
    LET fn == "EnumerateInstanceLayerProperties"
        count == NativeCall(fn, "none", "null", 0, 0, n1, s1)
    IN IF s1 = "SUCCESS"
       THEN LET layer_props == [k \in 1..n1 |-> DefaultEntry]
                fill == NativeCall(fn, "none", "layer_props", Len(layer_props), n1, n2, s2)
            IN Ok("enum_layers", <<count, fill>>, DriverFill(layer_props, n2))
       ELSE Err("enum_layers", <<count>>, s1)

\* Vulkan::enum_layers
enum_layers(s1, n1, s2, n2) ==
    LET fn == "EnumerateInstanceLayerProperties"
        count == NativeCall(fn, "none", "null", 0, 0, n1, s1)
    IN IF s1 = "SUCCESS"
       THEN LET layer_props == [k \in 1..n1 |-> DefaultEntry]
                fill == NativeCall(fn, "none", "layer_props", Len(layer_props), n1, n2, s2)
            IN IF s2 = "SUCCESS"
               THEN Ok("enum_layers", <<count, fill>>, DriverFill(layer_props, n2))
               ELSE Err("enum_layers", <<count, fill>>, s2)
       ELSE Err("enum_layers", <<count>>, s1)

\* Instance::enum_physical_devices
enum_physical_devices(instance, s1, n1, s2, n2) ==
    LET fn == "EnumeratePhysicalDevices"
        count == NativeCall(fn, instance, "null", 0, 0, n1, s1)
    IN IF s1 = "SUCCESS"
       THEN LET devs == [k \in 1..n1 |-> DefaultEntry]
                fill == NativeCall(fn, instance, "devices", Len(devs), n1, n2, s2)
            IN IF s2 = "SUCCESS"
               THEN Ok("enum_physical_devices", <<count, fill>>, DriverFill(devs, n2))
               ELSE Err("enum_physical_devices", <<count, fill>>, s2)
       ELSE Err("enum_physical_devices", <<count>>, s1)

\* Instance::enum_physical_device_extensions
enum_physical_device_extensions(device, s1, n1, s2, n2) ==
    LET fn == "EnumerateDeviceExtensionProperties"
        count == NativeCall(fn, device, "null", 0, 0, n1, s1)
    IN IF s1 = "SUCCESS"
       THEN LET ext_props == [k \in 1..n1 |-> DefaultEntry]
                fill == NativeCall(fn, device, "ext_props", Len(ext_props), n1, n2, s2)
            IN IF s2 = "SUCCESS"
               THEN Ok("enum_physical_device_extensions", <<count, fill>>,
                       DriverFill(ext_props, n2))
               ELSE Err("enum_physical_device_extensions", <<count, fill>>, s2)
       ELSE Err("enum_physical_device_extensions", <<count>>, s1)

\* As enum_physical_device_queue_family_properties, but with the buffer
\* allocated before the count call, from the count variable's initial 0.
enum_physical_device_queue_family_properties_early(device, n1, n2, held) ==
    LET fn == "GetPhysicalDeviceQueueFamilyProperties"
        properties == <<>>
        count == NativeCall(fn, device, "null", 0, 0, n1, "void")
        fill == NativeCall(fn, device, "properties", Len(properties), n1, n2, "void")
    IN Ok("enum_physical_device_queue_family_properties", <<count, fill>>, properties)

\* Instance::enum_physical_device_queue_family_properties: the native call
\* returns no status; the buffer is n1 copies of one uninitialized element.
enum_physical_device_queue_family_properties(device, n1, n2, held) ==
    LET fn == "GetPhysicalDeviceQueueFamilyProperties"
        count == NativeCall(fn, device, "null", 0, 0, n1, "void")
        properties == [k \in 1..n1 |-> UninitEntry(held)]
        fill == NativeCall(fn, device, "properties", Len(properties), n1, n2, "void")
    IN Ok("enum_physical_device_queue_family_properties", <<count, fill>>,
          DriverFill(properties, n2))

\* An enumeration ran and returned `result`; it changes no handle.
Enumerated(result, obj) ==
    /\ lastEnum' = result
    /\ lastRes' = Result(result.op, result.outcome, result.status, obj, "ok")
    /\ createInfo' = NoCreateInfo
    /\ UNCHANGED <<vulkans, instances, devices, log, panicked, c_chars, decoded>>

\* What the driver may answer to the two calls of a status-returning enumeration:
\* the fill call never reports more entries than the buffer it was given holds.
Answers ==
    {a \in [s1 : EnumStatus, n1 : 0..MaxCount, s2 : EnumStatus, n2 : 0..MaxCount] :
        /\ a.n2 <= a.n1
        /\ a.s1 # "SUCCESS" => (a.s2 = "SUCCESS" /\ a.n2 = 0)}

\* &self of a Vulkan method: a Vulkan value the caller holds, or the vk field
\* of a live Instance.
EnumExtensions ==
    /\ ~panicked
    /\ \E v \in VulkanIds, a \in Answers :
         /\ LibMapped(v)
         /\ Enumerated(enum_extensions(a.s1, a.n1, a.s2, a.n2), v)

EnumLayers ==
    /\ ~panicked
    /\ \E v \in VulkanIds, a \in Answers :
         /\ LibMapped(v)
         /\ Enumerated(enum_layers(a.s1, a.n1, a.s2, a.n2), v)

EnumPhysicalDevices ==
    /\ ~panicked
    /\ \E i \in InstanceIds, a \in Answers :
         /\ instances[i].state = "alive"
         /\ Enumerated(enum_physical_devices(instances[i].instance,
                                             a.s1, a.n1, a.s2, a.n2), i)

EnumPhysicalDeviceExtensions ==
    /\ ~panicked
    /\ \E i \in InstanceIds, device \in PhysicalDevices, a \in Answers :
         /\ instances[i].state = "alive"
         /\ Enumerated(enum_physical_device_extensions(device,
                                                       a.s1, a.n1, a.s2, a.n2), i)

EnumQueueFamilyProperties ==
    /\ ~panicked
    /\ \E i \in InstanceIds, device \in PhysicalDevices,
          n1 \in 0..MaxCount, n2 \in 0..MaxCount, held \in Indeterminate :
         /\ instances[i].state = "alive"
         /\ n2 <= n1
         /\ Enumerated(enum_physical_device_queue_family_properties(device, n1, n2, held), i)

\* -------------------------------------------------------- name decoding
\* Values of an i8 element: the zero byte, an ASCII letter, and 0xFF, which is
\* part of no UTF-8 sequence.
Bytes == {0, 65, -1}

\* [i8; N] buffers, and the one ::default() makes: [0; N].
Buffers == [1..BufferSize -> Bytes]
DefaultBuffer == [k \in 1..BufferSize |-> 0]

\* What the memory after a buffer may hold, up to and with its first zero byte.
Beyond == {b \o <<0>> : b \in UNION {[1..n -> Bytes \ {0}] : n \in 0..MaxBeyond}}

\* String::from_utf8_lossy: every byte that is not valid UTF-8 becomes U+FFFD.
from_utf8_lossy(s) == [k \in 1..Len(s) |-> IF s[k] < 0 THEN 65533 ELSE s[k]]

\* CStr::from_ptr(p).to_bytes(): the bytes from p up to the first zero byte of
\* the memory at p, wherever that is; `read` counts the bytes looked at.
CStr_from_ptr(memory) ==
    LET nul == CHOOSE k \in 1..Len(memory) :
                   memory[k] = 0 /\ \A j \in 1..(k - 1) : memory[j] # 0
    IN [bytes |-> SubSeq(memory, 1, nul - 1), read |-> nul]

\* string_from_c_str(c_str): only c_str.as_ptr() is used, the length of the
\* slice is not; `beyond` is the memory that follows the slice.
string_from_c_str(c_str, beyond) ==
    LET s == CStr_from_ptr(c_str \o beyond)
    IN [text |-> from_utf8_lossy(s.bytes), read |-> s.read]

\* The method `fn` decoded the buffer and returned `string`.
Decoded(fn, string) ==
    /\ Len(decoded) < MaxDecodes
    /\ decoded' = Append(decoded, [fn |-> fn, text |-> string.text, read |-> string.read])
    /\ UNCHANGED <<vulkans, instances, devices, log, lastRes, panicked, createInfo,
                   lastEnum, c_chars>>

\* VkExtensionProperties::extension_name
ExtensionName ==
    \E beyond \in Beyond : Decoded("extension_name", string_from_c_str(c_chars, beyond))

\* VkLayerProperties::layer_name
LayerName ==
    \E beyond \in Beyond : Decoded("layer_name", string_from_c_str(c_chars, beyond))

\* VkLayerProperties::description
Description ==
    \E beyond \in Beyond : Decoded("description", string_from_c_str(c_chars, beyond))

\* ------------------------------------------------------------------- Spec
Init ==
    /\ vulkans = [v \in VulkanIds |-> [state |-> "none"]]
    /\ instances = [i \in InstanceIds |-> [state |-> "none", vk |-> 0, instance |-> NULL_HANDLE]]
    /\ devices = [d \in DeviceIds |-> [state |-> "none", instance |-> 0, device |-> NULL_HANDLE]]
    /\ log = <<>>
    /\ lastRes = Result("none", "none", "none", 0, "none")
    /\ panicked = FALSE
    /\ createInfo = NoCreateInfo
    /\ lastEnum = NoEnum
    /\ c_chars = DefaultBuffer
    /\ decoded = <<>>

\* Construction and release of the three handles.
Next ==
    \/ VulkanNew
    \/ InstanceNew
    \/ DeviceNew
    \/ DropDevice
    \/ DropInstance
    \/ DropVulkan

Spec == Init /\ [][Next]_vars

\* Construction of the values the enumerations are methods of, and the enumerations.
NextEnum ==
    \/ VulkanNew
    \/ InstanceNew
    \/ EnumExtensions
    \/ EnumLayers
    \/ EnumPhysicalDevices
    \/ EnumPhysicalDeviceExtensions
    \/ EnumQueueFamilyProperties

SpecEnum == Init /\ [][NextEnum]_vars

\* A capability record as the driver may have filled it, and its decodings.
InitStr ==
    /\ vulkans = [v \in VulkanIds |-> [state |-> "none"]]
    /\ instances = [i \in InstanceIds |-> [state |-> "none", vk |-> 0, instance |-> NULL_HANDLE]]
    /\ devices = [d \in DeviceIds |-> [state |-> "none", instance |-> 0, device |-> NULL_HANDLE]]
    /\ log = <<>>
    /\ lastRes = Result("none", "none", "none", 0, "none")
    /\ panicked = FALSE
    /\ createInfo = NoCreateInfo
    /\ lastEnum = NoEnum
    /\ c_chars \in Buffers
    /\ decoded = <<>>

NextStr ==
    \/ ExtensionName
    \/ LayerName
    \/ Description

SpecStr == InitStr /\ [][NextStr]_vars

\* ----------------------------------------------------------------- claims
\* Positions of the log where operation fn was made for object obj.
At(fn, obj) == {k \in 1..Len(log) : log[k].fn = fn /\ log[k].obj = obj}

\* Every position of a is before every position of b.
Before(a, b) == \A x \in a, y \in b : x < y

\* Entries made through a function table or a resolver of the driver library.
NativeCalls == {k \in 1..Len(log) : log[k].via # NoVia}

\* C1: the native destroy-device call of a device comes before the native
\* destroy-connection call of the connection it was created from, which comes
\* before the unload of the driver library; and no connection or library is
\* released while one of its devices is still alive.
C1_TeardownOrder ==
    /\ \A d \in DeviceIds : devices[d].state \in {"alive", "dropped"} =>
         /\ Before(At("DestroyDevice", d), At("DestroyInstance", InstanceOf(d)))
         /\ Before(At("DestroyDevice", d), At("Library::drop", VulkanOf(InstanceOf(d))))
    /\ \A i \in InstanceIds : instances[i].state \in {"alive", "dropped"} =>
         Before(At("DestroyInstance", i), At("Library::drop", VulkanOf(i)))
    /\ \A d \in DeviceIds : devices[d].state = "alive" =>
         /\ instances[InstanceOf(d)].state = "alive"
         /\ LibMapped(VulkanOf(InstanceOf(d)))

\* C2: no native entry point is called after the library it was resolved from
\* has been released, and a library is released only by the drop of the Vulkan
\* value that owns it.
C2_LibraryMappedAtEveryCall ==
    /\ \A k \in NativeCalls : log[k].mapped
    /\ \A v \in VulkanIds : LibMapped(v) => At("Library::drop", v) = {}

\* C3: when Instance::new returns a status error, no native connection is left
\* behind and the Vulkan value that was passed in is still loaded and in the
\* caller's hands, ready for another Instance::new.
C3_BootstrapUsableAfterFailure ==
    (lastRes.op = "Instance::new" /\ lastRes.outcome = "err") =>
        /\ instances[lastRes.obj].state # "alive"
        /\ vulkans[VulkanOf(lastRes.obj)].state = "caller"

\* C7: Vulkan::new returns the library-load error, and produces no loaded
\* Vulkan value, both when the library cannot be opened and when the symbol
\* vkGetInstanceProcAddr is missing from it.
C7_LoadErrorReturned ==
    (lastRes.op = "Vulkan::new" /\ lastRes.input \in {"no_library", "no_symbol"}) =>
        /\ lastRes.outcome = "err"
        /\ lastRes.status = "libloading::Error"
        /\ ~LibMapped(lastRes.obj)

\* C8: Instance::new and Device::new end by returning a handle or an error
\* value for every input, names with an embedded zero byte included.
C8_CreateNeverAborts ==
    lastRes.op \in {"Instance::new", "Device::new"} => lastRes.outcome \in {"ok", "err"}

\* The largest queue count of a request list, 0 for the empty list.
LargestCount(queues) ==
    LET counts == {queues[k][2] : k \in 1..Len(queues)} \cup {0}
    IN CHOOSE m \in counts : \A c \in counts : c <= m

\* C9: the native create-device call receives one creation record per queue
\* request, in request order, with that request's family index and count; all
\* records point at one priority array, whose length is the largest requested
\* count (0 for no request) and whose every slot holds the maximum priority.
C9_QueueRecords ==
    createInfo.called =>
        LET queues == createInfo.queues
            infos == createInfo.pQueueCreateInfos
        IN /\ Len(infos) = Len(queues)
           /\ createInfo.queueCreateInfoCount = Len(queues)
           /\ \A k \in 1..Len(queues) :
                /\ infos[k].queueFamilyIndex = queues[k][1]
                /\ infos[k].queueCount = queues[k][2]
                /\ infos[k].pQueuePriorities = "priorities"
                /\ infos[k].queueCount <= Len(createInfo.priorities)
           /\ Len(createInfo.priorities) = LargestCount(queues)
           /\ \A s \in 1..Len(createInfo.priorities) : createInfo.priorities[s] = MaxPriority

\* A create-device call with two requests, the larger count first.
C9_Witness ==
    /\ createInfo.called
    /\ Len(createInfo.queues) = 2
    /\ createInfo.queues[1][2] > createInfo.queues[2][2]
    /\ createInfo.queues[1][1] # createInfo.queues[2][1]
    /\ lastRes.op = "Device::new"

\* C10: each tier's function table is resolved once, right after that tier's
\* create call returned success, through the previous tier's resolver: the
\* library tier through the bootstrap resolver with a null scope, the
\* connection tier through the bootstrap resolver with the new connection
\* handle, the device tier through the GetDeviceProcAddr entry of the
\* connection's table with the new device handle; a failed create resolves
\* nothing.
C10_TierResolution ==
    /\ \A k \in 1..Len(log) : log[k].fn = "LibraryCommands::new" =>
         /\ k >= 3
         /\ log[k-2].fn = "Library::new" /\ log[k-2].obj = log[k].obj
         /\ log[k-2].status = "SUCCESS"
         /\ log[k-1].fn = "lib.get" /\ log[k-1].obj = log[k].obj
         /\ log[k-1].status = "SUCCESS"
         /\ log[k].via = <<"GetInstanceProcAddr", log[k].obj>>
         /\ log[k].scope = NULL_HANDLE
    /\ \A k \in 1..Len(log) : log[k].fn = "InstanceCommands::new" =>
         /\ k >= 2
         /\ log[k-1].fn = "CreateInstance" /\ log[k-1].obj = log[k].obj
         /\ log[k-1].status = "SUCCESS"
         /\ log[k-1].via = <<"LibraryCommands", VulkanOf(log[k].obj)>>
         /\ At("LibraryCommands::new", VulkanOf(log[k].obj)) # {}
         /\ Before(At("LibraryCommands::new", VulkanOf(log[k].obj)), {k})
         /\ log[k].via = <<"GetInstanceProcAddr", VulkanOf(log[k].obj)>>
         /\ log[k].scope = instances[log[k].obj].instance
         /\ log[k].scope # NULL_HANDLE
    /\ \A k \in 1..Len(log) : log[k].fn = "DeviceCommands::new" =>
         /\ k >= 2
         /\ log[k-1].fn = "CreateDevice" /\ log[k-1].obj = log[k].obj
         /\ log[k-1].status = "SUCCESS"
         /\ log[k-1].via = <<"InstanceCommands", InstanceOf(log[k].obj)>>
         /\ At("InstanceCommands::new", InstanceOf(log[k].obj)) # {}
         /\ Before(At("InstanceCommands::new", InstanceOf(log[k].obj)), {k})
         /\ log[k].via = <<"GetDeviceProcAddr", InstanceOf(log[k].obj)>>
         /\ log[k].scope = devices[log[k].obj].device
         /\ log[k].scope # NULL_HANDLE
    /\ \A k \in 1..Len(log) : log[k].fn \in {"CreateInstance", "CreateDevice"} =>
         LET resolve == IF log[k].fn = "CreateInstance" THEN "InstanceCommands::new"
                        ELSE "DeviceCommands::new"
         IN IF log[k].status = "SUCCESS"
            THEN At(resolve, log[k].obj) = {k + 1}
            ELSE At(resolve, log[k].obj) = {}
    /\ \A v \in VulkanIds : Cardinality(At("LibraryCommands::new", v)) <= 1
    /\ \A v \in VulkanIds : LibMapped(v) => Cardinality(At("LibraryCommands::new", v)) = 1

\* All three tiers have been resolved, the device tier last.
C10_Witness ==
    \E d \in DeviceIds :
        /\ devices[d].state = "alive"
        /\ At("DeviceCommands::new", d) = {Len(log)}
        /\ At("InstanceCommands::new", InstanceOf(d)) # {}
        /\ At("LibraryCommands::new", VulkanOf(InstanceOf(d))) # {}

StatusEnumerations ==
    {"enum_extensions", "enum_layers", "enum_physical_devices",
     "enum_physical_device_extensions"}

TwoCallEnumerations ==
    StatusEnumerations \cup {"enum_physical_device_queue_family_properties"}

\* C4: a two-call enumeration that succeeds returns exactly as many entries as
\* the fill call reported, also when that is fewer than the count call reported.
C4_LengthIsSecondCount ==
    (lastEnum.op \in TwoCallEnumerations /\ lastEnum.outcome = "ok") =>
        Len(lastEnum.value) = lastEnum.calls[2].countOut

\* C5: a status-returning enumeration makes at most two native calls, the count
\* call and then the fill call, neither of them twice; a count call that fails
\* ends it with that status as the error and no fill call; a fill call that
\* fails ends it with that status as the error and no buffer.
C5_EnumerationErrors ==
    lastEnum.op \in StatusEnumerations =>
        LET calls == lastEnum.calls
        IN /\ Len(calls) \in {1, 2}
           /\ calls[1].buffer = "null"
           /\ Len(calls) = 2 => calls[2].buffer # "null"
           /\ calls[1].status # "SUCCESS" =>
                /\ Len(calls) = 1
                /\ lastEnum.outcome = "err"
                /\ lastEnum.status = calls[1].status
                /\ lastEnum.value = <<>>
           /\ (Len(calls) = 2 /\ calls[2].status # "SUCCESS") =>
                /\ lastEnum.outcome = "err"
                /\ lastEnum.status = calls[2].status
                /\ lastEnum.value = <<>>

\* A fill call that wrote part of the buffer and then reported a failure.
C5_Witness ==
    /\ lastEnum.op = "enum_layers"
    /\ Len(lastEnum.calls) = 2
    /\ lastEnum.calls[2].status = "ERROR_OUT_OF_HOST_MEMORY"
    /\ lastEnum.calls[2].countOut = 1
    /\ lastEnum.calls[2].len = 2
    /\ lastEnum.outcome = "err"

\* C6: every entry enum_physical_device_queue_family_properties returns was
\* written by the driver or holds the default value.
C6_NoUninitializedEntry ==
    lastEnum.op = "enum_physical_device_queue_family_properties" =>
        \A k \in 1..Len(lastEnum.value) :
            \/ lastEnum.value[k].writer = "driver"
            \/ lastEnum.value[k] = DefaultEntry

\* A step that releases Device d.
Releases(d) == devices[d].state = "alive" /\ devices'[d].state = "dropped"

\* C11: releasing a Device makes one native call, DestroyDevice on its own
\* device handle, and nothing else: no Instance and no Vulkan value changes (no
\* connection is destroyed, no library unloaded, no handle or table replaced),
\* so what was usable before the release is usable after it.
C11_DeviceDropFrame ==
    [][\A d \in DeviceIds : Releases(d) =>
          /\ instances' = instances
          /\ vulkans' = vulkans
          /\ \A e \in DeviceIds \ {d} : devices'[e] = devices[e]
          /\ devices'[d].device = devices[d].device
          /\ Len(log') = Len(log) + 1
          /\ SubSeq(log', 1, Len(log)) = log
          /\ log'[Len(log')].fn = "DestroyDevice"
          /\ log'[Len(log')].obj = d
          /\ log'[Len(log')].scope = devices[d].device
          /\ log'[Len(log')].via = <<"DeviceCommands", d>>]_vars

\* A Device has been released while its Instance lives on, library mapped.
C11_Witness ==
    /\ lastRes.op = "Device::drop"
    /\ devices[lastRes.obj].state = "dropped"
    /\ instances[InstanceOf(lastRes.obj)].state = "alive"
    /\ LibMapped(VulkanOf(InstanceOf(lastRes.obj)))
    /\ log[Len(log)].fn = "DestroyDevice"

\* Positions of the log where create call fn for object obj returned success.
Created(fn, obj) == {k \in At(fn, obj) : log[k].status = "SUCCESS"}

\* Object obj, in state `state`, created by `create` and destroyed by `destroy`:
\* destroyed at most once; once exactly when its handle has been released, and
\* then after its one successful create; never without a successful create.
DestroyedOnce(state, create, destroy, obj) ==
    /\ Cardinality(At(destroy, obj)) <= 1
    /\ Cardinality(Created(create, obj)) <= 1
    /\ state = "dropped" <=> Cardinality(At(destroy, obj)) = 1
    /\ state \in {"alive", "dropped"} <=> Cardinality(Created(create, obj)) = 1
    /\ At(destroy, obj) # {} =>
         /\ Created(create, obj) # {}
         /\ Before(Created(create, obj), At(destroy, obj))
    /\ At(create, obj) \ Created(create, obj) # {} => At(destroy, obj) = {}

\* C13: every native connection and device whose create call returned success
\* is destroyed by one native destroy call, made when its handle is released,
\* and by no other; an object whose create call failed is never destroyed.
C13_SingleDestroy ==
    /\ \A i \in InstanceIds :
         DestroyedOnce(instances[i].state, "CreateInstance", "DestroyInstance", i)
    /\ \A d \in DeviceIds :
         DestroyedOnce(devices[d].state, "CreateDevice", "DestroyDevice", d)

\* A connection and a device of it, both created and both released.
C13_Witness ==
    \E d \in DeviceIds :
        /\ devices[d].state = "dropped"
        /\ instances[InstanceOf(d)].state = "dropped"
        /\ Cardinality(At("DestroyDevice", d)) = 1
        /\ Cardinality(At("DestroyInstance", InstanceOf(d))) = 1

\* C14: a two-call enumeration makes the count call first, with a null output
\* buffer; the fill call comes after it (in a status-returning enumeration only
\* after a count call that returned success), with a buffer of exactly as many
\* elements as the count call reported and that same number as its count, so
\* never with a buffer smaller than the count it passes.
C14_CountThenFill ==
    lastEnum.op \in TwoCallEnumerations =>
        LET calls == lastEnum.calls
        IN /\ Len(calls) \in {1, 2}
           /\ calls[1].buffer = "null"
           /\ calls[1].len = 0
           /\ Len(calls) = 2 =>
                /\ calls[2].fn = calls[1].fn
                /\ calls[2].arg = calls[1].arg
                /\ calls[2].buffer # "null"
                /\ calls[2].len = calls[1].countOut
                /\ calls[2].countIn = calls[1].countOut
                /\ calls[2].len >= calls[2].countIn
                /\ lastEnum.op \in StatusEnumerations => calls[1].status = "SUCCESS"

\* A fill call made with a buffer of the two elements the count call reported.
C14_Witness ==
    /\ lastEnum.op = "enum_physical_device_queue_family_properties"
    /\ Len(lastEnum.calls) = 2
    /\ lastEnum.calls[1].countOut = 2
    /\ lastEnum.calls[2].len = 2
    /\ lastEnum.calls[2].countIn = 2

\* C15: in the native create-device call, pEnabledFeatures is null when no
\* feature record was given, and otherwise points at a record that is alive
\* and holds the caller's values.
C15_FeaturesPointer ==
    createInfo.called =>
        IF createInfo.features = "None"
        THEN createInfo.pEnabledFeatures = "null"
        ELSE /\ createInfo.pEnabledFeatures # "null"
             /\ createInfo.featuresRead = createInfo.features

\* C12: decoding the same buffer twice yields identical text.
C12_DecodeTwiceSame ==
    \A a \in 1..Len(decoded), b \in 1..Len(decoded) : decoded[a].text = decoded[b].text

\* The bytes of a buffer before its first zero byte, all of them if it has none.
UpToZero(c_str) ==
    LET zeros == {k \in 1..Len(c_str) : c_str[k] = 0}
        end == IF zeros = {} THEN Len(c_str)
               ELSE (CHOOSE k \in zeros : \A j \in zeros : k <= j) - 1
    IN SubSeq(c_str, 1, end)

\* C16: a decoding reads no byte outside the buffer and yields the text of the
\* bytes before the buffer's first zero byte, of the whole buffer if it has none.
C16_DecodeWithinBuffer ==
    \A k \in 1..Len(decoded) :
        /\ decoded[k].read <= Len(c_chars)
        /\ decoded[k].text = from_utf8_lossy(UpToZero(c_chars))

====
